---- MODULE Spec2Model ----
(***************************************************************************)
(* Model lifecycle and inference routing of QC-Check 02:                   *)
(*   src/app.py             train_endpoint / train_task, the scheduler     *)
(*                          tick, rollback, predict, the training guard    *)
(*   src/modules/ai_engine.py   AIEngine: train, _load_inference_model,    *)
(*                          predict, _get_current_version, list_versions,  *)
(*                          rollback_to_version                            *)
(* The anomalib Engine (fit, export) is an external library: it is         *)
(* modelled at its boundary, with the directory layout the source relies   *)
(* on (models/<Type>/cable/v<N>, ai_engine.py:321) and nondeterministic    *)
(* success or failure.                                                     *)
(***************************************************************************)
EXTENDS Integers, Sequences, FiniteSets, TLC

\* ------------------------------------------------------------- bounds
ScoreSpread == 20  \* raw scores this far on either side of the threshold
NumReq == 2        \* POST /api/train requests handled at the same time
MaxTrains == 2     \* training attempts made (requests and scheduler ticks)
MaxRollbacks == 2  \* POST /api/rollback requests issued
MaxOk == 10        \* largest number of OK samples in the corpus

\* ------------------------------------------------- program constants
ExpectedNormalCount == 10   \* train(expected_normal_count = 10)

\* scores are counted in units of 1 / ScoreUnit
ScoreUnit == 100000
\* the decision threshold 0.5
Threshold == 50000

\* ------------------------------------------------------------ processes
\* the numbers of OK samples a train call may find on disk
Found == (ExpectedNormalCount - 1)..MaxOk

Sched == 0
Reqs == 1..NumReq
Callers == {Sched} \cup Reqs

\* ------------------------------------------------------------- strings
\* the keys of SUPPORTED_MODELS in the order of the dict
ModelKeys == <<"patchcore", "padim", "efficientad">>
\* ai_engine.py:55-59: model-type key -> display name
SUPPORTED_MODELS ==
    [key \in {ModelKeys[i] : i \in 1..Len(ModelKeys)} |->
        CASE key = "patchcore" -> "Patchcore"
          [] key = "padim" -> "Padim"
          [] key = "efficientad" -> "EfficientAd"]
TrainInputs == {"patchcore", "bogus"}

\* str.capitalize() on the model-type keys used here
Capitalize(mt) ==
    CASE mt = "patchcore" -> "Patchcore"
      [] mt = "PATCHCORE" -> "Patchcore"
      [] mt = "padim" -> "Padim"
      [] mt = "efficientad" -> "Efficientad"
      [] mt = "bogus" -> "Bogus"
      [] OTHER -> "Other"

Dirs == {"Patchcore"}

\* f"v{n}"
VNameTable == <<"v0", "v1", "v2", "v3", "v4", "v5", "v6", "v7", "v8", "v9",
                "v10", "v11", "v12">>
VName(n) == VNameTable[n + 1]
\* the numbers a version name of this model can carry
AllNums == 0..(Len(VNameTable) - 1)
VNums == 0..MaxTrains
VNames == {VName(n) : n \in VNums}
Names == VNames \cup {"latest"}
\* int(name[1:]) for a name "v<digits>"
VNum(name) == CHOOSE n \in AllNums : VName(n) = name

\* ------------------------------------------------------------- values
NoSrc == [d |-> "", v |-> ""]
\* a type directory with nothing but what the Engine writes under cable/
NoDirect == [cable |-> FALSE, nums |-> {}]
Absent == [exists |-> FALSE, ckpt |-> FALSE, mtime |-> 0, src |-> ""]
\* a model object: who is fitting it (-1: nobody), its training state and the
\* version its weights come from
Null == [id |-> -1, st |-> "none", src |-> NoSrc]
NoOut == [st |-> "none", version |-> "", required |-> 0, found |-> 0]
NoBefore == [cur |-> "", any |-> FALSE]
NoPred == [kind |-> "none", method |-> "", st |-> "", src |-> NoSrc,
           score |-> 0, label |-> ""]
\* what a backend returned for an image: the shape of the object and the
\* anomaly score in it, in units of ScoreUnit
NoOutput == [kind |-> "none", raw |-> 0]
NoListing == [model_type |-> "", current |-> "", versions |-> <<>>]
NoArg == [version |-> "", model_type |-> ""]

VARIABLES
    training_active,   \* app.py:20
    training_lock,     \* app.py:21   "free" or the holder
    pc,                \* position of every train caller
    mtype,             \* model_type of the training attempt
    heldAtIssue,       \* guard flag when the attempt reached the lock
    tout,              \* result of the caller's ai_engine.train call
    verBefore,         \* _get_current_version when train was called
    newVer,            \* version directory the caller's fit writes to
    fitObj,            \* object passed to engine.fit
    expObj,            \* object passed to engine.export
    ntrain,            \* training attempts so far
    train_temp,        \* data/train_temp exists
    cable,             \* models/<Dir>/cable/<name>
    openvino,          \* models/openvino bundle
    model,             \* AIEngine.model
    inferencer,        \* AIEngine.inferencer
    active_model_type, \* AIEngine.active_model_type
    rpc,               \* position of the rollback request
    rarg,              \* arguments of the rollback request
    rout,              \* result of the rollback request
    aliasBefore,       \* the 'latest' entry when rollback_to_version was called
    nrb,               \* rollback requests so far
    ppc,               \* position of the predict request
    pres,              \* result of the predict request
    output,            \* what the backend returned to the predict request
    listing,           \* the answer of GET /api/versions
    models,            \* the answer of GET /api/models
    direct,            \* per type directory: what lies in it next to cable/<name>
    all_ok,            \* the OK samples train has counted (paths under data/ok)
    good               \* the file names in data/train_temp/good

guardVars == <<training_active, training_lock>>
callerVars == <<pc, mtype, heldAtIssue, tout, verBefore, newVer,
                fitObj, expObj, ntrain>>
fsVars == <<train_temp, cable, openvino>>
engineVars == <<model, inferencer, active_model_type>>
rbVars == <<rpc, rarg, rout, aliasBefore, nrb>>
predVars == <<ppc, pres, output>>
stageVars == <<all_ok, good>>
queryVars == <<listing, models, direct, stageVars>>
vars == <<guardVars, callerVars, fsVars, engineVars, rbVars, predVars, queryVars>>

\* ------------------------------------------------------ version registry
Entry(d, name) == cable[d][name]

\* Path.exists() of models/<Dir>/cable/<name>
DirExists(d, name) ==
    d \in DOMAIN cable /\ name \in DOMAIN cable[d] /\ Entry(d, name).exists

\* list(<dir>.rglob("*.ckpt")) is not empty
HasCkpt(d, name) == DirExists(d, name) /\ Entry(d, name).ckpt

\* the "v<digits>" directories under models/<Dir>/cable
VersionNums(d) == {n \in AllNums : DirExists(d, VName(n))}

\* Path.exists() of models/<Dir>/cable: it has an entry, or it was made empty
CableExists(d) ==
    \/ d \in DOMAIN direct /\ direct[d].cable
    \/ d \in DOMAIN cable /\ \E n \in DOMAIN cable[d] : Entry(d, n).exists

\* the "v<digits>" directories directly under models/<Dir>
DirectNums(d) == IF d \in DOMAIN direct THEN direct[d].nums ELSE {}

Max(S) == CHOOSE x \in S : \A y \in S : y <= x

\* a lookup that counts the version directories instead of taking the highest
GetCurrentVersionMut(mt) ==
    LET nums == VersionNums(Capitalize(mt))
    IN  IF nums = {} THEN "v0" ELSE VName(Cardinality(nums))

\* AIEngine._get_current_version: "v0" when nothing is there, else v<max>
\* of the directories under cable/, or of those under the type directory
\* itself when it has no cable/ (ai_engine.py:322-324)
GetCurrentVersion(mt) ==
    LET d == Capitalize(mt)
        nums == IF CableExists(d) THEN VersionNums(d) ELSE DirectNums(d)
    IN  IF nums = {} THEN "v0" ELSE VName(Max(nums))

\* the directory the anomalib Engine opens for a run: v<highest + 1>
NextVersion(d) ==
    IF VersionNums(d) = {} THEN 0 ELSE Max(VersionNums(d)) + 1

\* model_dir.rglob("*.ckpt")
Ckpts(d) ==
    IF d \notin DOMAIN cable THEN {}
    ELSE {[name |-> n, mtime |-> Entry(d, n).mtime, src |-> Entry(d, n).src] :
              n \in {m \in DOMAIN cable[d] : HasCkpt(d, m)}}

\* max(ckpts, key=os.path.getmtime)
LatestCkpt(d) ==
    CHOOSE e \in Ckpts(d) : \A f \in Ckpts(d) : f.mtime <= e.mtime

\* the modification time of a checkpoint written now: later than all others
Now(d) == IF Ckpts(d) = {} THEN 1 ELSE LatestCkpt(d).mtime + 1

\* str(n): the decimal digits of a version number
RECURSIVE Digits(_)
Digits(n) == IF n < 10 THEN <<n>> ELSE Append(Digits(n \div 10), n % 10)

\* a < b for two strings of digits, character by character
LexLess(a, b) ==
    \E i \in 1..(Len(a) + 1) :
        /\ \A k \in 1..(i - 1) : k <= Len(b) /\ a[k] = b[k]
        /\ \/ i > Len(a) /\ i <= Len(b)
           \/ i <= Len(a) /\ i <= Len(b) /\ a[i] < b[i]

\* the order of sorted(model_dir.iterdir()) on v<n> and v<m>: Path objects
\* compare as strings
PathLess(n, m) == LexLess(Digits(n), Digits(m))

\* sorted(...): the numbers of S in the order PathLess
RECURSIVE Sorted(_)
Sorted(S) ==
    IF S = {} THEN <<>>
    ELSE LET first == CHOOSE x \in S : \A y \in S \ {x} : PathLess(x, y)
         IN  <<first>> \o Sorted(S \ {first})

\* AIEngine.list_versions: the v<digits> entries in the order of the sorted
\* directory listing, each with has_checkpoint
ListVersions(mt) ==
    LET d == Capitalize(mt)
        order == Sorted(VersionNums(d))
    IN  [i \in 1..Len(order) |->
            [version |-> VName(order[i]),
             has_checkpoint |-> HasCkpt(d, VName(order[i]))]]

\* AIEngine.get_available_models: one entry per supported type, in the order
\* of the dict; trained looks for checkpoints under models/<display name>
GetAvailableModels ==
    [i \in 1..Len(ModelKeys) |->
        LET key == ModelKeys[i]
            name == SUPPORTED_MODELS[key]
        IN  [type |-> key,
             name |-> name,
             trained |-> Ckpts(name) # {},
             active |-> key = active_model_type]]

\* AIEngine._get_model_class returns a class (TRUE) or raises ValueError
GetModelClassOk(mt) == mt \in {"patchcore", "padim", "efficientad"}

\* ------------------------------------------------------ inference router
\* a bundle test that forgets the metadata sidecar
OvCompleteMut == openvino.xml

\* ai_engine.py:87, both files of models/openvino exist
OvComplete == openvino.xml /\ openvino.meta

\* the backend _load_inference_model leaves, given the one it found (prev):
\* the bundle if complete, else the newest checkpoint of the type; when
\* nothing is found or the load raises, what was there stays
LoadResult(mt, prev) ==
    LET d == Capitalize(mt)
    IN  IF OvComplete
        THEN [model |-> Null, inferencer |-> openvino.src]
        ELSE IF Ckpts(d) # {} /\ GetModelClassOk(mt)
        THEN [model |-> [id |-> -1, st |-> "trained",
                         src |-> [d |-> d, v |-> LatestCkpt(d).src]],
              inferencer |-> NoSrc]
        ELSE prev

\* AIEngine._load_inference_model(model_type)
LoadInferenceModel(mt) ==
    LET r == LoadResult(mt, [model |-> model, inferencer |-> inferencer])
    IN  /\ active_model_type' = mt
        /\ model' = r.model
        /\ inferencer' = r.inferencer

\* the version whose artifact the loaded backend was built from
BackendSrc ==
    IF inferencer # NoSrc THEN inferencer
    ELSE IF model # Null THEN model.src
    ELSE NoSrc

\* app.py training_status
TrainingStatus == [active |-> training_active]

\* ------------------------------------------------------------------ Init
Init ==
    /\ training_active = FALSE
    /\ training_lock = "free"
    /\ pc = [c \in Callers |-> "idle"]
    /\ mtype = [c \in Callers |-> ""]
    /\ heldAtIssue = [c \in Callers |-> FALSE]
    /\ tout = [c \in Callers |-> NoOut]
    /\ verBefore = [c \in Callers |-> NoBefore]
    /\ newVer = [c \in Callers |-> ""]
    /\ fitObj = [c \in Callers |-> Null]
    /\ expObj = [c \in Callers |-> Null]
    /\ ntrain = 0
    /\ train_temp = FALSE
    /\ cable = [d \in Dirs |-> [n \in Names |-> Absent]]
    /\ openvino = [xml |-> FALSE, meta |-> FALSE, src |-> NoSrc]
    /\ model = Null
    /\ inferencer = NoSrc
    /\ active_model_type = "patchcore"
    /\ rpc = "idle"
    /\ rarg = NoArg
    /\ rout = "none"
    /\ aliasBefore = Absent
    /\ nrb = 0
    /\ ppc = "idle"
    /\ pres = NoPred
    /\ output = NoOutput
    /\ listing = NoListing
    /\ models = <<>>
    /\ direct = [d \in Dirs |-> NoDirect]
    /\ all_ok = {}
    /\ good = {}

\* --------------------------------------------------- concurrency guard
\* a guard that tests the lock instead of the flag
GuardBusyMut == training_lock # "free"

\* app.py:290 / app.py:413, the test made under training_lock
GuardBusy == training_active

\* train_endpoint, app.py:289-292: the body of "with training_lock"
EnterGuard(r) ==
    IF GuardBusy
    THEN /\ pc' = [pc EXCEPT ![r] = "rejected"]
         /\ UNCHANGED training_active
    ELSE /\ training_active' = TRUE
         /\ pc' = [pc EXCEPT ![r] = "handler"]

\* the response of POST /api/train, app.py:291 and app.py:313
Resp(r) ==
    CASE pc[r] = "rejected" -> "409 Training already in progress"
      [] pc[r] = "crashed" -> "error"
      [] pc[r] \in {"idle", "blocked", "handler"} -> "none"
      [] OTHER -> "started"

\* POST /api/train reaches "with training_lock" (app.py:289)
Arrive(r) ==
    /\ pc[r] = "idle"
    /\ ntrain < MaxTrains
    /\ \A q \in Reqs : q < r => pc[q] # "idle"
    /\ ntrain' = ntrain + 1
    /\ heldAtIssue' = [heldAtIssue EXCEPT ![r] = training_active]
    /\ IF training_lock = "free"
       THEN EnterGuard(r)
       ELSE /\ pc' = [pc EXCEPT ![r] = "blocked"]
            /\ UNCHANGED training_active
    /\ UNCHANGED <<training_lock, mtype, tout, verBefore, newVer, fitObj, expObj,
                   fsVars, engineVars, rbVars, predVars, queryVars>>

\* a handler waiting on training_lock gets it (app.py:289)
Unblock(r) ==
    /\ pc[r] = "blocked"
    /\ training_lock = "free"
    /\ EnterGuard(r)
    /\ UNCHANGED <<training_lock, mtype, heldAtIssue, tout, verBefore, newVer,
                   fitObj, expObj, ntrain, fsVars, engineVars, rbVars, predVars, queryVars>>

\* app.py:294-295: request.json raises on a body that is not JSON (or
\* data.get on a body that is no object); the flag is still set
ParseFails(r) ==
    /\ pc[r] = "handler"
    /\ pc' = [pc EXCEPT ![r] = "crashed"]
    /\ UNCHANGED <<guardVars, mtype, heldAtIssue, tout, verBefore, newVer, fitObj,
                   expObj, ntrain, fsVars, engineVars, rbVars, predVars, queryVars>>

\* app.py:309-311: thread.start() raises RuntimeError (no thread available)
SpawnFails(r) ==
    /\ pc[r] = "handler"
    /\ pc' = [pc EXCEPT ![r] = "crashed"]
    /\ UNCHANGED <<guardVars, mtype, heldAtIssue, tout, verBefore, newVer, fitObj,
                   expObj, ntrain, fsVars, engineVars, rbVars, predVars, queryVars>>

\* a handler that gives the guard back when it has started the worker
SpawnOkMut(r, mt) ==
    /\ pc[r] = "handler"
    /\ mtype' = [mtype EXCEPT ![r] = mt]
    /\ pc' = [pc EXCEPT ![r] = "check"]
    /\ training_active' = FALSE
    /\ UNCHANGED <<training_lock, heldAtIssue, tout, verBefore, newVer, fitObj,
                   expObj, ntrain, fsVars, engineVars, rbVars, predVars, queryVars>>

\* app.py:294-313: the body is read, train_task started, "started" returned
SpawnOk(r, mt) ==
    /\ pc[r] = "handler"
    /\ mtype' = [mtype EXCEPT ![r] = mt]
    /\ pc' = [pc EXCEPT ![r] = "check"]
    /\ UNCHANGED <<guardVars, heldAtIssue, tout, verBefore, newVer, fitObj, expObj,
                   ntrain, fsVars, engineVars, rbVars, predVars, queryVars>>

\* app.py:291 / the error response: the handler is over
Return(r) ==
    /\ pc[r] \in {"rejected", "crashed"}
    /\ pc' = [pc EXCEPT ![r] = "idle"]
    /\ heldAtIssue' = [heldAtIssue EXCEPT ![r] = FALSE]
    /\ UNCHANGED <<guardVars, mtype, tout, verBefore, newVer, fitObj, expObj,
                   ntrain, fsVars, engineVars, rbVars, predVars, queryVars>>

\* a test that lets a count of zero through
HasNewOksMut(newOks) == newOks >= 0

\* app.py:409, if new_oks > 0
HasNewOks(newOks) == newOks > 0

\* scheduled_retraining, app.py:402-423, up to the call of train; with no new
\* OK record the job only prints that it skips (app.py:422-423)
Tick(newOks) ==
    /\ pc[Sched] = "idle"
    /\ ntrain < MaxTrains
    /\ training_lock = "free"
    /\ ntrain' = ntrain + 1
    /\ IF ~HasNewOks(newOks)
       THEN /\ pc' = [pc EXCEPT ![Sched] = "skip"]
            /\ UNCHANGED <<guardVars, mtype>>
       ELSE IF ~GuardBusy
       THEN /\ training_active' = TRUE
            /\ training_lock' = "sched"
            /\ pc' = [pc EXCEPT ![Sched] = "check"]
            /\ mtype' = [mtype EXCEPT ![Sched] = "patchcore"]
       ELSE UNCHANGED <<guardVars, pc, mtype>>
    /\ UNCHANGED <<heldAtIssue, tout, verBefore, newVer, fitObj, expObj,
                   fsVars, engineVars, rbVars, predVars, queryVars>>

\* scheduled_retraining, app.py:422-423: the job that skipped is over
TickReturn ==
    /\ pc[Sched] = "skip"
    /\ pc' = [pc EXCEPT ![Sched] = "idle"]
    /\ UNCHANGED <<guardVars, mtype, heldAtIssue, tout, verBefore, newVer, fitObj,
                   expObj, ntrain, fsVars, engineVars, rbVars, predVars, queryVars>>

\* ------------------------------------------------- training orchestrator
\* a precondition that is off by one
InsufficientMut(found, expected) == found < expected - 1

\* ai_engine.py:142, the precondition of train
Insufficient(found, expected) == found < expected

\* ai_engine.py:140-152: count the OK samples (found of them are on disk), then
\* stage data/train_temp
TrainCheck(c, found) ==
    /\ pc[c] = "check"
    /\ verBefore' = [verBefore EXCEPT ![c] =
           [cur |-> GetCurrentVersion(mtype[c]),
            any |-> VersionNums(Capitalize(mtype[c])) # {}]]
    /\ IF Insufficient(found, ExpectedNormalCount)
       THEN /\ tout' = [tout EXCEPT ![c] =
                   [st |-> "insufficient", version |-> "",
                    required |-> ExpectedNormalCount, found |-> found]]
            /\ pc' = [pc EXCEPT ![c] = "finally"]
            /\ UNCHANGED train_temp
       ELSE /\ train_temp' = TRUE
            /\ tout' = [tout EXCEPT ![c] =
                   [NoOut EXCEPT !.required = ExpectedNormalCount, !.found = found]]
            /\ pc' = [pc EXCEPT ![c] = "build"]
    /\ UNCHANGED <<guardVars, mtype, heldAtIssue, newVer, fitObj, expObj,
                   ntrain, cable, openvino, engineVars, rbVars, predVars, queryVars>>

\* ai_engine.py:154-175 raise: Folder, _get_model_class or the model
\* constructor fails; nothing is cleaned up on this path
BuildRaises(c) ==
    /\ pc[c] = "build"
    /\ tout' = [tout EXCEPT ![c] = [NoOut EXCEPT !.st = "raised"]]
    /\ pc' = [pc EXCEPT ![c] = "finally"]
    /\ UNCHANGED <<guardVars, mtype, heldAtIssue, verBefore, newVer,
                   fitObj, expObj, ntrain, fsVars, engineVars, rbVars, predVars, queryVars>>

\* ai_engine.py:154-183: datamodule, model class, self.model = ModelClass(...)
BuildOk(c) ==
    /\ pc[c] = "build"
    /\ GetModelClassOk(mtype[c])
    /\ model' = [id |-> c, st |-> "untrained", src |-> NoSrc]
    /\ tout' = [tout EXCEPT ![c] = NoOut]
    /\ pc' = [pc EXCEPT ![c] = "fit0"]
    /\ UNCHANGED <<guardVars, mtype, heldAtIssue, verBefore, newVer,
                   fitObj, expObj, ntrain, fsVars, inferencer, active_model_type,
                   rbVars, predVars, queryVars>>

\* ai_engine.py:187: engine.fit(model=self.model, ...) is entered; the Engine
\* opens models/<Dir>/cable/v<next>
FitStart(c) ==
    LET d == Capitalize(mtype[c])
        n == NextVersion(d)
        o == [model EXCEPT !.id = c, !.st = "fitting"]
    IN  /\ pc[c] = "fit0"
        /\ model # Null
        /\ fitObj' = [fitObj EXCEPT ![c] = o]
        /\ model' = o
        /\ newVer' = [newVer EXCEPT ![c] = VName(n)]
        /\ cable' = [cable EXCEPT ![d][VName(n)] =
                        [exists |-> TRUE, ckpt |-> FALSE, mtime |-> 0, src |-> VName(n)]]
        /\ pc' = [pc EXCEPT ![c] = "fit"]
        /\ UNCHANGED <<guardVars, mtype, heldAtIssue, tout, verBefore,
                       expObj, ntrain, train_temp, openvino,
                       inferencer, active_model_type, rbVars, predVars, queryVars>>

\* ai_engine.py:187-191: fit raises at once (self.model was emptied by a reload
\* before the call); the staging directory is removed and the error re-raised
FitNoModel(c) ==
    /\ pc[c] = "fit0"
    /\ model = Null
    /\ train_temp' = FALSE
    /\ tout' = [tout EXCEPT ![c] = [NoOut EXCEPT !.st = "raised"]]
    /\ pc' = [pc EXCEPT ![c] = "finally"]
    /\ UNCHANGED <<guardVars, mtype, heldAtIssue, verBefore, newVer,
                   fitObj, expObj, ntrain, cable, openvino,
                   engineVars, rbVars, predVars, queryVars>>

\* the object a fit works on is mutated in place: self.model shows the change
\* while it still refers to that object
Mutated(c, o) == IF model.id = c THEN o ELSE model

\* ai_engine.py:187: fit completes and the checkpoint is written
FitOk(c) ==
    LET d == Capitalize(mtype[c])
        o == [id |-> c, st |-> "trained", src |-> [d |-> d, v |-> newVer[c]]]
    IN  /\ pc[c] = "fit"
        /\ cable' = [cable EXCEPT ![d][newVer[c]] =
                        [@ EXCEPT !.ckpt = TRUE, !.mtime = Now(d)]]
        /\ fitObj' = [fitObj EXCEPT ![c] = o]
        /\ model' = Mutated(c, o)
        /\ pc' = [pc EXCEPT ![c] = "export"]
        /\ UNCHANGED <<guardVars, mtype, heldAtIssue, tout, verBefore,
                       newVer, expObj, ntrain, train_temp, openvino,
                       inferencer, active_model_type, rbVars, predVars, queryVars>>

\* ai_engine.py:188-191: fit raises; train_temp is removed, the error re-raised
FitRaises(c) ==
    LET o == [fitObj[c] EXCEPT !.st = "aborted"]
    IN  /\ pc[c] = "fit"
        /\ fitObj' = [fitObj EXCEPT ![c] = o]
        /\ model' = Mutated(c, o)
        /\ train_temp' = FALSE
        /\ tout' = [tout EXCEPT ![c] = [NoOut EXCEPT !.st = "raised"]]
        /\ pc' = [pc EXCEPT ![c] = "finally"]
        /\ UNCHANGED <<guardVars, mtype, heldAtIssue, verBefore, newVer,
                       expObj, ntrain, cable, openvino,
                       inferencer, active_model_type, rbVars, predVars, queryVars>>

\* ai_engine.py:195-200: engine.export(model=self.model) writes models/openvino
ExportOk(c) ==
    /\ pc[c] = "export"
    /\ model # Null
    /\ expObj' = [expObj EXCEPT ![c] = model]
    /\ openvino' = [xml |-> TRUE, meta |-> TRUE, src |-> model.src]
    /\ pc' = [pc EXCEPT ![c] = "finish"]
    /\ UNCHANGED <<guardVars, mtype, heldAtIssue, tout, verBefore, newVer,
                   fitObj, ntrain, train_temp, cable, engineVars,
                   rbVars, predVars, queryVars>>

\* ai_engine.py:201-202: export raises and the error is swallowed
ExportFails(c) ==
    /\ pc[c] = "export"
    /\ expObj' = [expObj EXCEPT ![c] = model]
    /\ pc' = [pc EXCEPT ![c] = "finish"]
    /\ UNCHANGED <<guardVars, mtype, heldAtIssue, tout, verBefore, newVer,
                   fitObj, ntrain, fsVars, engineVars, rbVars, predVars, queryVars>>

\* ai_engine.py:204-216: remove train_temp, look up the version, reload,
\* return success
TrainFinish(c) ==
    /\ pc[c] = "finish"
    /\ train_temp' = FALSE
    /\ LoadInferenceModel(mtype[c])
    /\ tout' = [tout EXCEPT ![c] =
           [NoOut EXCEPT !.st = "success", !.version = GetCurrentVersion(mtype[c])]]
    /\ pc' = [pc EXCEPT ![c] = "finally"]
    /\ UNCHANGED <<guardVars, mtype, heldAtIssue, verBefore, newVer,
                   fitObj, expObj, ntrain, cable, openvino, rbVars, predVars, queryVars>>

\* the caller's locals go out of scope
Forget(c) ==
    /\ mtype' = [mtype EXCEPT ![c] = ""]
    /\ heldAtIssue' = [heldAtIssue EXCEPT ![c] = FALSE]
    /\ tout' = [tout EXCEPT ![c] = NoOut]
    /\ verBefore' = [verBefore EXCEPT ![c] = NoBefore]
    /\ newVer' = [newVer EXCEPT ![c] = ""]
    /\ fitObj' = [fitObj EXCEPT ![c] = Null]
    /\ expObj' = [expObj EXCEPT ![c] = Null]
    /\ model' = IF model.id = c THEN [model EXCEPT !.id = -1] ELSE model

\* train_task, app.py:305-307: the finally block of the worker thread
FinallyReq(r) ==
    /\ pc[r] = "finally"
    /\ training_lock = "free"
    /\ training_active' = FALSE
    /\ pc' = [pc EXCEPT ![r] = "idle"]
    /\ Forget(r)
    /\ UNCHANGED <<training_lock, ntrain, fsVars, inferencer,
                   active_model_type, rbVars, predVars, queryVars>>

\* scheduled_retraining, app.py:420-421: finally, then the lock is released
FinallySched ==
    /\ pc[Sched] = "finally"
    /\ training_active' = FALSE
    /\ training_lock' = "free"
    /\ pc' = [pc EXCEPT ![Sched] = "idle"]
    /\ Forget(Sched)
    /\ UNCHANGED <<ntrain, fsVars, inferencer, active_model_type, rbVars, predVars, queryVars>>

\* ----------------------------------------------------------- rollback
RbVersions == {"v0", "v1", "latest"}
RbTypes == {"patchcore"}

\* POST /api/rollback, app.py:333-341
RbArrive(version, mt) ==
    /\ rpc = "idle"
    /\ nrb < MaxRollbacks
    /\ nrb' = nrb + 1
    /\ rarg' = [version |-> version, model_type |-> mt]
    /\ aliasBefore' = IF Capitalize(mt) \in DOMAIN cable
                      THEN Entry(Capitalize(mt), "latest") ELSE Absent
    /\ rpc' = "check"
    /\ UNCHANGED <<guardVars, callerVars, fsVars, engineVars, rout, predVars, queryVars>>

\* rollback_to_version, ai_engine.py:349-360: the two failure returns, else
\* if latest_dir.exists(): shutil.rmtree(latest_dir)
RbCheck ==
    LET d == Capitalize(rarg.model_type)
        v == rarg.version
    IN  /\ rpc = "check"
        /\ IF ~DirExists(d, v)
           THEN rout' = "not found" /\ rpc' = "done" /\ UNCHANGED cable
           ELSE IF ~HasCkpt(d, v)
           THEN rout' = "no checkpoint" /\ rpc' = "done" /\ UNCHANGED cable
           ELSE /\ cable' = [cable EXCEPT ![d]["latest"] = Absent]
                /\ rpc' = "copy"
                /\ UNCHANGED rout
        /\ UNCHANGED <<guardVars, callerVars, train_temp, openvino, engineVars,
                       rarg, aliasBefore, nrb, predVars, queryVars>>

\* ai_engine.py:361: shutil.copytree creates latest_dir; it raises when the
\* source is gone or the destination already exists
RbCopyStart ==
    LET d == Capitalize(rarg.model_type)
        v == rarg.version
    IN  /\ rpc = "copy"
        /\ IF DirExists(d, v) /\ ~DirExists(d, "latest")
           THEN /\ cable' = [cable EXCEPT ![d]["latest"] =
                                [exists |-> TRUE, ckpt |-> FALSE, mtime |-> 0, src |-> ""]]
                /\ rpc' = "copying"
                /\ UNCHANGED rout
           ELSE /\ rout' = "raised"
                /\ rpc' = "done"
                /\ UNCHANGED cable
        /\ UNCHANGED <<guardVars, callerVars, train_temp, openvino,
                       engineVars, rarg, aliasBefore, nrb, predVars, queryVars>>

\* a rollback that moves the version directory instead of copying it
RbCopyEndMut ==
    LET d == Capitalize(rarg.model_type)
        v == rarg.version
    IN  /\ rpc = "copying"
        /\ cable' = [cable EXCEPT ![d]["latest"] = Entry(d, v), ![d][v] = Absent]
        /\ rpc' = "reload"
        /\ UNCHANGED <<guardVars, callerVars, train_temp, openvino,
                       engineVars, rarg, rout, aliasBefore, nrb, predVars, queryVars>>

\* ai_engine.py:361: copytree finishes; copy2 keeps the modification time
RbCopyEnd ==
    LET d == Capitalize(rarg.model_type)
        v == rarg.version
    IN  /\ rpc = "copying"
        /\ cable' = [cable EXCEPT ![d]["latest"] =
                        [exists |-> TRUE, ckpt |-> Entry(d, v).ckpt,
                         mtime |-> Entry(d, v).mtime, src |-> Entry(d, v).src]]
        /\ rpc' = "reload"
        /\ UNCHANGED <<guardVars, callerVars, train_temp, openvino,
                       engineVars, rarg, rout, aliasBefore, nrb, predVars, queryVars>>

\* ai_engine.py:361: copytree raises part-way (disk full, file vanished)
RbCopyFails ==
    /\ rpc = "copying"
    /\ rout' = "raised"
    /\ rpc' = "done"
    /\ UNCHANGED <<guardVars, callerVars, fsVars, engineVars, rarg,
                   aliasBefore, nrb, predVars, queryVars>>

\* ai_engine.py:363-364: reload, return success
RbReload ==
    /\ rpc = "reload"
    /\ LoadInferenceModel(rarg.model_type)
    /\ rout' = "success"
    /\ rpc' = "done"
    /\ UNCHANGED <<guardVars, callerVars, fsVars, rarg, aliasBefore, nrb, predVars, queryVars>>

\* app.py:342-344: the response is sent, the handler's locals go away
RbReturn ==
    /\ rpc = "done"
    /\ rpc' = "idle"
    /\ rarg' = NoArg
    /\ rout' = "none"
    /\ aliasBefore' = Absent
    /\ UNCHANGED <<guardVars, callerVars, fsVars, engineVars, nrb, predVars, queryVars>>

\* ------------------------------------------------------------ predict
\* the output of a backend in the usual case: a score field, here 0.7
UsualOutputs == {[kind |-> "pred_score", raw |-> 70000]}

\* AIEngine.predict, ai_engine.py:220-227: pick the branch
PredictStart ==
    /\ ppc = "idle"
    /\ IF inferencer # NoSrc
       THEN ppc' = "ov" /\ pres' = NoPred
       ELSE IF model # Null
       THEN ppc' = "pt" /\ pres' = NoPred
       ELSE /\ ppc' = "done"
            /\ pres' = [NoPred EXCEPT !.kind = "error", !.method = "not loaded"]
    /\ UNCHANGED <<guardVars, callerVars, fsVars, engineVars, rbVars, output,
                   queryVars>>

\* ai_engine.py:235 and 280, round(score, 4): the nearest multiple of 1e-4
\* (ScoreUnit / 10000 units); no input used here lies half-way
Round4(raw) ==
    LET step == ScoreUnit \div 10000
    IN  ((raw + step \div 2) \div step) * step

\* ai_engine.py:236 and 281, "ng" if score > 0.5 else "ok", on the raw score
Label(raw) == IF raw > Threshold THEN "ng" ELSE "ok"

\* ai_engine.py:259-267: the score _predict_pytorch reads from the output;
\* it stays at its initial 0.0 when neither branch applies
PytorchScore(out) ==
    IF out.kind = "pred_score" THEN out.raw
    ELSE IF out.kind = "tuple_tensor" THEN out.raw
    ELSE 0

\* _predict_openvino, ai_engine.py:229-240: self.inferencer is read again;
\* float(predictions.pred_score) raises when the field is missing
PredictOpenvino(out) ==
    /\ ppc = "ov"
    /\ ppc' = "done"
    /\ IF inferencer = NoSrc
       THEN /\ pres' = [NoPred EXCEPT !.kind = "error", !.method = "openvino"]
            /\ output' = NoOutput
       ELSE /\ output' = out
            /\ IF out.kind = "pred_score"
               THEN pres' = [kind |-> "result", method |-> "openvino",
                             st |-> "trained", src |-> inferencer,
                             score |-> Round4(out.raw), label |-> Label(out.raw)]
               ELSE pres' = [NoPred EXCEPT !.kind = "error", !.method = "openvino"]
    /\ UNCHANGED <<guardVars, callerVars, fsVars, engineVars, rbVars, queryVars>>

\* _predict_pytorch, ai_engine.py:242-290: self.model is read again and called
PredictPytorch(out) ==
    /\ ppc = "pt"
    /\ ppc' = "done"
    /\ IF model = Null
       THEN /\ pres' = [NoPred EXCEPT !.kind = "error", !.method = "pytorch"]
            /\ output' = NoOutput
       ELSE /\ output' = out
            /\ pres' = [kind |-> "result", method |-> "pytorch", st |-> model.st,
                        src |-> model.src,
                        score |-> Round4(PytorchScore(out)),
                        label |-> Label(PytorchScore(out))]
    /\ UNCHANGED <<guardVars, callerVars, fsVars, engineVars, rbVars, queryVars>>

\* predict_endpoint, app.py:281-282: the result is sent
PredictReturn ==
    /\ ppc = "done"
    /\ ppc' = "idle"
    /\ pres' = NoPred
    /\ output' = NoOutput
    /\ UNCHANGED <<guardVars, callerVars, fsVars, engineVars, rbVars, queryVars>>

\* ---------------------------------------------------------------- Next
Next ==
    \/ \E r \in Reqs : Arrive(r)
    \/ \E r \in Reqs : Unblock(r)
    \/ \E r \in Reqs : ParseFails(r)
    \/ \E r \in Reqs : SpawnFails(r)
    \/ \E r \in Reqs, mt \in TrainInputs : SpawnOk(r, mt)
    \/ \E r \in Reqs : Return(r)
    \/ \E n \in 0..1 : Tick(n)
    \/ TickReturn
    \/ \E c \in Callers, found \in Found : TrainCheck(c, found)
    \/ \E c \in Callers : BuildRaises(c)
    \/ \E c \in Callers : BuildOk(c)
    \/ \E c \in Callers : FitStart(c)
    \/ \E c \in Callers : FitNoModel(c)
    \/ \E c \in Callers : FitOk(c)
    \/ \E c \in Callers : FitRaises(c)
    \/ \E c \in Callers : ExportOk(c)
    \/ \E c \in Callers : ExportFails(c)
    \/ \E c \in Callers : TrainFinish(c)
    \/ \E r \in Reqs : FinallyReq(r)
    \/ FinallySched
    \/ \E v \in RbVersions, mt \in RbTypes : RbArrive(v, mt)
    \/ RbCheck
    \/ RbCopyStart
    \/ RbCopyEnd
    \/ RbCopyFails
    \/ RbReload
    \/ RbReturn
    \/ PredictStart
    \/ \E out \in UsualOutputs : PredictOpenvino(out)
    \/ \E out \in UsualOutputs : PredictPytorch(out)
    \/ PredictReturn

Spec == Init /\ [][Next]_vars

\* ------------------------------------------- the router on any disk
\* The process is started on a model directory in any condition: version
\* directories with or without a checkpoint, an alias left by an earlier
\* rollback, a bundle of which either file may be missing.  Then rollbacks
\* (each ends with a reload) and predicts are served.
RouterTypes == {"patchcore", "PATCHCORE"}

\* what may be found at models/Patchcore/cable/<name> when the process starts
DiskEntries(name) ==
    CASE name = "v0" ->
             {Absent,
              [exists |-> TRUE, ckpt |-> FALSE, mtime |-> 0, src |-> "v0"],
              [exists |-> TRUE, ckpt |-> TRUE, mtime |-> 1, src |-> "v0"],
              [exists |-> TRUE, ckpt |-> TRUE, mtime |-> 3, src |-> "v0"]}
      [] name = "v1" ->
             {Absent,
              [exists |-> TRUE, ckpt |-> FALSE, mtime |-> 0, src |-> "v1"],
              [exists |-> TRUE, ckpt |-> TRUE, mtime |-> 2, src |-> "v1"]}
      [] OTHER -> {Absent}

\* AIEngine.__init__, ai_engine.py:71-76: nothing loaded, then the first load
Constructed ==
    LoadResult("patchcore", [model |-> Null, inferencer |-> NoSrc])

RouterInit ==
    /\ training_active = FALSE
    /\ training_lock = "free"
    /\ pc = [c \in Callers |-> "idle"]
    /\ mtype = [c \in Callers |-> ""]
    /\ heldAtIssue = [c \in Callers |-> FALSE]
    /\ tout = [c \in Callers |-> NoOut]
    /\ verBefore = [c \in Callers |-> NoBefore]
    /\ newVer = [c \in Callers |-> ""]
    /\ fitObj = [c \in Callers |-> Null]
    /\ expObj = [c \in Callers |-> Null]
    /\ ntrain = 0
    /\ train_temp = FALSE
    /\ \E e0 \in DiskEntries("v0"), e1 \in DiskEntries("v1") :
         \E al \in {Absent} \cup {e \in {e0, e1} : e.ckpt} :
           cable = [d \in Dirs |-> [n \in Names |->
                       CASE n = "v0" -> e0
                         [] n = "v1" -> e1
                         [] n = "latest" -> al
                         [] OTHER -> Absent]]
    /\ \E x \in BOOLEAN, m \in BOOLEAN :
           openvino = [xml |-> x, meta |-> m,
                       src |-> IF x \/ m THEN [d |-> "Patchcore", v |-> "v0"]
                               ELSE NoSrc]
    /\ model = Constructed.model
    /\ inferencer = Constructed.inferencer
    /\ active_model_type = "patchcore"
    /\ rpc = "idle"
    /\ rarg = NoArg
    /\ rout = "none"
    /\ aliasBefore = Absent
    /\ nrb = 0
    /\ ppc = "idle"
    /\ pres = NoPred
    /\ output = NoOutput
    /\ listing = NoListing
    /\ models = <<>>
    /\ direct = [d \in Dirs |-> NoDirect]
    /\ all_ok = {}
    /\ good = {}

\* the process is restarted: AIEngine.__init__ runs again on the same disk
Restart ==
    /\ rpc = "idle"
    /\ ppc = "idle"
    /\ active_model_type' = "patchcore"
    /\ model' = Constructed.model
    /\ inferencer' = Constructed.inferencer
    /\ UNCHANGED <<guardVars, callerVars, fsVars, rbVars, predVars, queryVars>>

RouterNext ==
    \/ Restart
    \/ \E v \in RbVersions, mt \in RouterTypes : RbArrive(v, mt)
    \/ RbCheck
    \/ RbCopyStart
    \/ RbCopyEnd
    \/ RbCopyFails
    \/ RbReload
    \/ RbReturn
    \/ PredictStart
    \/ \E out \in UsualOutputs : PredictOpenvino(out)
    \/ \E out \in UsualOutputs : PredictPytorch(out)
    \/ PredictReturn

SpecRouter == RouterInit /\ [][RouterNext]_vars

\* --------------------------------------------- predict on any output
\* A backend is loaded and predicts are served; the backend returns objects
\* of every shape _predict_pytorch distinguishes, with scores around the
\* threshold and at both ends of the range.
RawScores ==
    {n \in ((Threshold - ScoreSpread)..(Threshold + ScoreSpread))
              \cup {0, ScoreUnit} : n % 10 # 5}

\* an object with a pred_score field, a tuple whose first element is a
\* tensor, a tuple whose first element is no tensor, an empty tuple, and an
\* object that is neither
Outputs ==
    {[kind |-> k, raw |-> n] : k \in {"pred_score", "tuple_tensor"}, n \in RawScores}
        \cup {[kind |-> k, raw |-> 0] : k \in {"tuple_other", "empty_tuple", "other"}}

ScoreInit ==
    /\ training_active = FALSE
    /\ training_lock = "free"
    /\ pc = [c \in Callers |-> "idle"]
    /\ mtype = [c \in Callers |-> ""]
    /\ heldAtIssue = [c \in Callers |-> FALSE]
    /\ tout = [c \in Callers |-> NoOut]
    /\ verBefore = [c \in Callers |-> NoBefore]
    /\ newVer = [c \in Callers |-> ""]
    /\ fitObj = [c \in Callers |-> Null]
    /\ expObj = [c \in Callers |-> Null]
    /\ ntrain = 0
    /\ train_temp = FALSE
    /\ cable = [d \in Dirs |-> [n \in Names |->
                   IF n = "v0"
                   THEN [exists |-> TRUE, ckpt |-> TRUE, mtime |-> 1, src |-> "v0"]
                   ELSE Absent]]
    /\ \E b \in BOOLEAN :
           openvino = [xml |-> b, meta |-> b,
                       src |-> IF b THEN [d |-> "Patchcore", v |-> "v0"] ELSE NoSrc]
    /\ model = Constructed.model
    /\ inferencer = Constructed.inferencer
    /\ active_model_type = "patchcore"
    /\ rpc = "idle"
    /\ rarg = NoArg
    /\ rout = "none"
    /\ aliasBefore = Absent
    /\ nrb = 0
    /\ ppc = "idle"
    /\ pres = NoPred
    /\ output = NoOutput
    /\ listing = NoListing
    /\ models = <<>>
    /\ direct = [d \in Dirs |-> NoDirect]
    /\ all_ok = {}
    /\ good = {}

ScoreNext ==
    \/ PredictStart
    \/ \E out \in Outputs : PredictOpenvino(out)
    \/ \E out \in Outputs : PredictPytorch(out)
    \/ PredictReturn

SpecScore == ScoreInit /\ [][ScoreNext]_vars

\* ------------------------------------------ the listing on any registry
\* The registry of a type that has been trained many times: version
\* directories with one and with two digits, some without a checkpoint, the
\* alias, and a directory whose name starts with "v" but is no version.
ListedVersions == {"v0", "v1", "v9", "v10"}
\* version directories that lie in the type directory itself
DirectVersions == {0, 3}
ListedNames == ListedVersions \cup {"latest", "vtmp"}
ListTypes == {"patchcore", "bogus"}

VersionsInit ==
    /\ training_active = FALSE
    /\ training_lock = "free"
    /\ pc = [c \in Callers |-> "idle"]
    /\ mtype = [c \in Callers |-> ""]
    /\ heldAtIssue = [c \in Callers |-> FALSE]
    /\ tout = [c \in Callers |-> NoOut]
    /\ verBefore = [c \in Callers |-> NoBefore]
    /\ newVer = [c \in Callers |-> ""]
    /\ fitObj = [c \in Callers |-> Null]
    /\ expObj = [c \in Callers |-> Null]
    /\ ntrain = 0
    /\ train_temp = FALSE
    /\ \E present \in SUBSET ListedNames :
         \E trained \in SUBSET (present \cap ListedVersions) :
           cable = [d \in Dirs |-> [n \in ListedNames |->
                       IF n \in present
                       THEN [exists |-> TRUE, ckpt |-> n \in trained,
                             mtime |-> IF n \in trained THEN VNum(n) ELSE 0,
                             src |-> IF n \in ListedVersions THEN n ELSE ""]
                       ELSE Absent]]
    /\ openvino = [xml |-> FALSE, meta |-> FALSE, src |-> NoSrc]
    /\ model = Constructed.model
    /\ inferencer = Constructed.inferencer
    /\ active_model_type = "patchcore"
    /\ rpc = "idle"
    /\ rarg = NoArg
    /\ rout = "none"
    /\ aliasBefore = Absent
    /\ nrb = 0
    /\ ppc = "idle"
    /\ pres = NoPred
    /\ output = NoOutput
    /\ listing = NoListing
    /\ models = <<>>
    /\ \E made \in BOOLEAN : \E nums \in SUBSET DirectVersions :
         direct = [d \in Dirs |-> [cable |-> made, nums |-> nums]]
    /\ all_ok = {}
    /\ good = {}

\* GET /api/versions, app.py:325-331
VersionsCall(mt) ==
    /\ listing = NoListing
    /\ listing' = [model_type |-> mt,
                   current |-> GetCurrentVersion(mt),
                   versions |-> ListVersions(mt)]
    /\ UNCHANGED <<guardVars, callerVars, fsVars, engineVars, rbVars, predVars,
                   models, direct, stageVars>>

\* the answer is sent
VersionsReturn ==
    /\ listing # NoListing
    /\ listing' = NoListing
    /\ UNCHANGED <<guardVars, callerVars, fsVars, engineVars, rbVars, predVars,
                   models, direct, stageVars>>

VersionsNext ==
    \/ \E mt \in ListTypes : VersionsCall(mt)
    \/ VersionsReturn

SpecVersions == VersionsInit /\ [][VersionsNext]_vars

\* ------------------------------------------- staging on any corpus
\* train is called on a corpus of OK samples kept in sub-directories of
\* data/ok (one per day, storage.py:61-65); the staging workspace may be
\* left over from an earlier call.  A sample is a path: directory and name.
StageDirs == {"d1", "d2", "d3"}
\* ExpectedNormalCount - 1 samples of one day, all named differently
BaseSamples == {[dir |-> "d1", name |-> n] : n \in 1..(ExpectedNormalCount - 1)}
\* further samples: new names, and names already used in another directory
MoreSamples ==
    {[dir |-> d, name |-> n] :
        d \in StageDirs, n \in {1, ExpectedNormalCount, ExpectedNormalCount + 1}}
        \ BaseSamples
Corpora == {BaseSamples \cup extra : extra \in SUBSET MoreSamples}

\* ai_engine.py:151-152: every sample is copied to good/<its name>
Staged(samples) == {p.name : p \in samples}

StageInit ==
    /\ training_active = FALSE
    /\ training_lock = "free"
    /\ pc = [c \in Callers |-> "idle"]
    /\ mtype = [c \in Callers |-> ""]
    /\ heldAtIssue = [c \in Callers |-> FALSE]
    /\ tout = [c \in Callers |-> NoOut]
    /\ verBefore = [c \in Callers |-> NoBefore]
    /\ newVer = [c \in Callers |-> ""]
    /\ fitObj = [c \in Callers |-> Null]
    /\ expObj = [c \in Callers |-> Null]
    /\ ntrain = 0
    /\ \E left \in {{}, {0}} :
         /\ train_temp = (left # {})
         /\ good = left
    /\ cable = [d \in Dirs |-> [n \in Names |-> Absent]]
    /\ openvino = [xml |-> FALSE, meta |-> FALSE, src |-> NoSrc]
    /\ model = Null
    /\ inferencer = NoSrc
    /\ active_model_type = "patchcore"
    /\ rpc = "idle"
    /\ rarg = NoArg
    /\ rout = "none"
    /\ aliasBefore = Absent
    /\ nrb = 0
    /\ ppc = "idle"
    /\ pres = NoPred
    /\ output = NoOutput
    /\ listing = NoListing
    /\ models = <<>>
    /\ direct = [d \in Dirs |-> NoDirect]
    /\ all_ok = {}

\* AIEngine.train, ai_engine.py:140-152: count the samples; with enough of
\* them remove a leftover workspace, create good/ and copy every sample
StageWorkspace(samples) ==
    /\ all_ok = {}
    /\ all_ok' = samples
    /\ IF Insufficient(Cardinality(samples), ExpectedNormalCount)
       THEN UNCHANGED <<train_temp, good>>
       ELSE /\ train_temp' = TRUE
            /\ good' = Staged(samples)
    /\ UNCHANGED <<guardVars, callerVars, cable, openvino, engineVars, rbVars,
                   predVars, listing, models, direct>>

\* ai_engine.py:205-206: the workspace is removed and the call is over
StageCleanup ==
    /\ all_ok # {}
    /\ all_ok' = {}
    /\ IF Insufficient(Cardinality(all_ok), ExpectedNormalCount)
       THEN UNCHANGED <<train_temp, good>>
       ELSE /\ train_temp' = FALSE
            /\ good' = {}
    /\ UNCHANGED <<guardVars, callerVars, cable, openvino, engineVars, rbVars,
                   predVars, listing, models, direct>>

StageNext ==
    \/ \E samples \in Corpora : StageWorkspace(samples)
    \/ StageCleanup

SpecStage == StageInit /\ [][StageNext]_vars

\* ---------------------------------------- the model list on any registry
\* The type directories a models/ tree may hold: the one train writes for
\* each key (capitalize), and the one named like the display name.  On a
\* file system that folds case the two names of a type are one directory.
ModelDirs ==
    {Capitalize(k) : k \in DOMAIN SUPPORTED_MODELS} \cup
    {SUPPORTED_MODELS[k] : k \in DOMAIN SUPPORTED_MODELS}

\* what a type directory may hold: nothing, a version without a checkpoint
\* (a fit that failed), or a trained version
TypeDirs ==
    {[n \in Names |-> Absent],
     [n \in Names |-> IF n = "v0"
                      THEN [exists |-> TRUE, ckpt |-> FALSE, mtime |-> 0, src |-> "v0"]
                      ELSE Absent],
     [n \in Names |-> IF n = "v0"
                      THEN [exists |-> TRUE, ckpt |-> TRUE, mtime |-> 1, src |-> "v0"]
                      ELSE Absent]}

ModelsInit ==
    /\ training_active = FALSE
    /\ training_lock = "free"
    /\ pc = [c \in Callers |-> "idle"]
    /\ mtype = [c \in Callers |-> ""]
    /\ heldAtIssue = [c \in Callers |-> FALSE]
    /\ tout = [c \in Callers |-> NoOut]
    /\ verBefore = [c \in Callers |-> NoBefore]
    /\ newVer = [c \in Callers |-> ""]
    /\ fitObj = [c \in Callers |-> Null]
    /\ expObj = [c \in Callers |-> Null]
    /\ ntrain = 0
    /\ train_temp = FALSE
    /\ cable \in [ModelDirs -> TypeDirs]
    /\ openvino = [xml |-> FALSE, meta |-> FALSE, src |-> NoSrc]
    /\ model = Constructed.model
    /\ inferencer = Constructed.inferencer
    /\ active_model_type = "patchcore"
    /\ rpc = "idle"
    /\ rarg = NoArg
    /\ rout = "none"
    /\ aliasBefore = Absent
    /\ nrb = 0
    /\ ppc = "idle"
    /\ pres = NoPred
    /\ output = NoOutput
    /\ listing = NoListing
    /\ models = <<>>
    /\ direct = [d \in ModelDirs |-> NoDirect]
    /\ all_ok = {}
    /\ good = {}

\* GET /api/models, app.py:319-322
ModelsCall ==
    /\ models = <<>>
    /\ models' = GetAvailableModels
    /\ UNCHANGED <<guardVars, callerVars, fsVars, engineVars, rbVars, predVars,
                   listing, direct, stageVars>>

\* the answer is sent
ModelsReturn ==
    /\ models # <<>>
    /\ models' = <<>>
    /\ UNCHANGED <<guardVars, callerVars, fsVars, engineVars, rbVars, predVars,
                   listing, direct, stageVars>>

ModelsNext ==
    \/ ModelsCall
    \/ ModelsReturn

SpecModels == ModelsInit /\ [][ModelsNext]_vars


\* ================================================================ claims
\* an execution of ai_engine.train by caller c is in progress
InTrain(c) == pc[c] \in {"check", "build", "fit0", "fit", "export", "finish"}

\* the caller has set training_active and has not yet run its release
HoldsGuard(c) == pc[c] = "handler" \/ InTrain(c) \/ pc[c] = "finally"

\* C1: over every interleaving of POST /api/train requests, their worker
\* threads and scheduler ticks, at most one execution of ai_engine.train is
\* in progress at any instant.
C1_OneTrainAtATime == Cardinality({c \in Callers : InTrain(c)}) <= 1

\* a fit is running while another request was turned away by the guard
C1_Witness ==
    \E c \in Callers, r \in Reqs : c # r /\ pc[c] = "fit" /\ pc[r] = "rejected"

\* C2 (as claimed): an attempt that reached the guard while another attempt
\* held it fails with "Training already in progress" and never runs
\* ai_engine.train.
C2_AsClaimed == \A r \in Reqs : heldAtIssue[r] => ~InTrain(r)

\* C3 (as claimed): whenever training_active is set, the attempt that set it is
\* still on a path that releases it; the flag never stays set with no attempt
\* left to reset it.
C3_AsClaimed == training_active => \E c \in Callers : HoldsGuard(c)

\* C4 (as claimed): once a call of train has returned or raised, data/train_temp
\* does not exist.
C4_AsClaimed == \A c \in Callers : pc[c] = "finally" => ~train_temp

\* C5 (as claimed): when rollback_to_version(V, model_type) returns success, the
\* backend its reload left in place is built from version V's artifact.
C5_AsClaimed ==
    [][(rpc = "reload" /\ rpc' = "done" /\ rout' = "success") =>
          BackendSrc' = [d |-> Capitalize(rarg.model_type), v |-> rarg.version]]_vars

\* C6 (as claimed): when a train or a rollback_to_version completes with
\* success, _get_current_version(active_model_type) names the version the
\* loaded backend was built from.
C6_AsClaimed ==
    [][((\E c \in Callers : pc[c] = "finish" /\ pc'[c] = "finally")
           \/ (rpc = "reload" /\ rpc' = "done")) =>
          BackendSrc' = [d |-> Capitalize(active_model_type),
                         v |-> GetCurrentVersion(active_model_type)]']_vars

\* C7: when train returns success, _get_current_version(model_type) is one more
\* than it was when train was called (the initial version v0 if no version
\* existed), the directory it names holds a checkpoint, and the result's
\* "version" is that value.
C7_VersionAdvances ==
    \A c \in Callers :
        (pc[c] = "finally" /\ tout[c].st = "success") =>
            LET v == GetCurrentVersion(mtype[c])
            IN  /\ tout[c].version = v
                /\ HasCkpt(Capitalize(mtype[c]), v)
                /\ v = IF verBefore[c].any
                       THEN VName(VNum(verBefore[c].cur) + 1)
                       ELSE VName(0)

\* a train has returned success where a version existed before the call
C7_Witness ==
    \E c \in Callers :
        pc[c] = "finally" /\ tout[c].st = "success" /\ verBefore[c].any

\* C8: a train call that finds fewer OK samples than expected_normal_count
\* returns a failure naming the required and the found count and changes
\* nothing: the version directories, data/train_temp, the optimized bundle
\* and the loaded backend stay as they were.
C8_InsufficientSamples ==
    [][\A c \in Callers :
          (pc[c] = "check" /\ pc'[c] # "check"
              /\ tout'[c].found < ExpectedNormalCount) =>
             /\ pc'[c] = "finally"
             /\ tout'[c].st = "insufficient"
             /\ tout'[c].required = ExpectedNormalCount
             /\ UNCHANGED <<cable, train_temp, openvino, model, inferencer,
                            active_model_type>>]_vars

\* a train has returned the failure for too few samples, with a model loaded
C8_Witness ==
    \E c \in Callers :
        /\ pc[c] = "finally"
        /\ tout[c].st = "insufficient"
        /\ tout[c].found < tout[c].required
        /\ BackendSrc # NoSrc

\* C9 (as claimed): a rollback whose version argument is no version entry (such
\* as "latest") or names a directory without a checkpoint returns a failure
\* and leaves the "latest" alias as it was.
C9_AsClaimed ==
    LET d == Capitalize(rarg.model_type)
    IN  (rpc = "done" /\ (rarg.version \notin VNames \/ ~HasCkpt(d, rarg.version))) =>
            /\ rout \in {"not found", "no checkpoint"}
            /\ Entry(d, "latest") = aliasBefore

\* C10 (as claimed): the object a predict scores with is a fully trained, fully
\* loaded model.
C10_AsClaimed == (ppc = "done" /\ pres.kind = "result") => pres.st = "trained"

\* C11: a scheduler tick that finds no OK record of the current UTC day does
\* not call ai_engine.train and does not write training_active, so
\* training_status reports what it reported before the tick.
C11_TickWithoutNewOks ==
    [][Tick(0) =>
          /\ pc'[Sched] = "skip"
          /\ ~InTrain(Sched)'
          /\ UNCHANGED <<training_active, training_lock>>
          /\ TrainingStatus' = TrainingStatus]_vars

\* a tick has skipped the retraining while the guard is idle
C11_Witness == pc[Sched] = "skip" /\ ~training_active /\ ~TrainingStatus.active

C13_AsClaimed ==
    [][(RbReload \/ Restart) =>
          LET mt == active_model_type'
              d == Capitalize(mt)
          IN  (~(openvino.xml /\ openvino.meta)
                  /\ (Ckpts(d) = {} \/ ~GetModelClassOk(mt))) =>
                (model' = Null /\ inferencer' = NoSrc)]_vars

\* C14: no step of rollback_to_version changes a version-numbered entry of the
\* registry, and when it returns success the "latest" alias holds the
\* contents of the version asked for, which is still in place: the same
\* rollback can be repeated with the same outcome.
C14_RollbackCopies ==
    [][rpc' # rpc =>
          /\ \A d \in Dirs : \A n \in VNames : Entry(d, n)' = Entry(d, n)
          /\ (rpc' = "done" /\ rout' = "success") =>
                LET d == Capitalize(rarg.model_type)
                IN  /\ HasCkpt(d, rarg.version)'
                    /\ Entry(d, "latest")' = Entry(d, rarg.version)']_vars

\* the same rollback has succeeded a second time: the alias already held the
\* copy of the version asked for when the call was made
C14_Witness ==
    /\ rpc = "done" /\ rout = "success" /\ nrb = 2
    /\ aliasBefore = Entry(Capitalize(rarg.model_type), rarg.version)
    /\ Entry(Capitalize(rarg.model_type), "latest") = aliasBefore

\* C15 (as claimed): the alias is replaced atomically: while a rollback runs
\* and after it ends, an alias that held a full copy before the call is never
\* seen missing or without its checkpoint.
C15_AsClaimed ==
    (rpc \in {"copy", "copying", "reload", "done"} /\ aliasBefore.ckpt) =>
        HasCkpt(Capitalize(rarg.model_type), "latest")

\* C16 (as claimed): a POST /api/train whose training fails the sample-count
\* precondition is answered with an error and has not set training_active.
C16_AsClaimed ==
    \A r \in Reqs :
        (pc[r] = "finally" /\ tout[r].st = "insufficient") =>
            (Resp(r) # "started" /\ ~training_active)

\* C17 (as claimed): while a training run executes fit or export, no
\* POST /api/train handler waits on training_lock.
C17_AsClaimed ==
    (\E c \in Callers : pc[c] \in {"fit0", "fit", "export"}) =>
        \A r \in Reqs : pc[r] # "blocked"

\* C18 (as claimed): when the reference backend's output has no pred_score
\* field and is no tuple or list whose first element is a tensor, predict
\* returns an error and no score and label.
C18_AsClaimed ==
    (ppc = "done" /\ pres.method = "pytorch"
        /\ output.kind \in {"tuple_other", "empty_tuple", "other"}) =>
        pres.kind = "error"

\* C20 (as claimed): in every successful predict result the label is "ng"
\* exactly when the score carried in that result is greater than 0.5.
C20_AsClaimed ==
    (ppc = "done" /\ pres.kind = "result") =>
        (pres.label = "ng" <=> pres.score > Threshold)

\* C19 (as claimed): list_versions returns exactly the v<digits> entries of
\* the type, in ascending order of version number, each with has_checkpoint
\* true exactly when the entry holds a checkpoint.
C19_AsClaimed ==
    listing # NoListing =>
        LET d == Capitalize(listing.model_type)
            vs == listing.versions
        IN  /\ {vs[i].version : i \in 1..Len(vs)} =
                   {VName(n) : n \in VersionNums(d)}
            /\ \A i \in 1..Len(vs) :
                   vs[i].has_checkpoint = HasCkpt(d, vs[i].version)
            /\ \A i \in 1..Len(vs) : \A j \in 1..Len(vs) :
                   i < j => VNum(vs[i].version) < VNum(vs[j].version)

\* C21 (as claimed): whenever a version directory exists, the directory that
\* _get_current_version names holds a checkpoint, also while a training runs
\* and after a fit that failed.
C21_AsClaimed ==
    \A d \in Dirs :
        VersionNums(d) # {} => HasCkpt(d, VName(Max(VersionNums(d))))

\* C22 (as claimed): when train has staged its workspace, good/ holds one
\* file for every sample counted and nothing else.
C22_AsClaimed ==
    (all_ok # {} /\ ~Insufficient(Cardinality(all_ok), ExpectedNormalCount)) =>
        /\ train_temp
        /\ Cardinality(good) = Cardinality(all_ok)

\* C23 (as claimed): in an answer of the versions listing, current is the
\* highest-numbered entry of versions, and it is the no-version value "v0"
\* exactly when versions is empty.
C23_AsClaimed ==
    listing # NoListing =>
        LET vs == listing.versions
            nums == {VNum(vs[i].version) : i \in 1..Len(vs)}
        IN  /\ vs # <<>> => listing.current = VName(Max(nums))
            /\ listing.current = "v0" <=> vs = <<>>

\* C24 (as claimed): when a train call has failed with an exception,
\* self.model is not an object that this call made: the backend is the one
\* that was in place before the call.
C24_AsClaimed ==
    \A c \in Callers :
        (pc[c] = "finally" /\ tout[c].st = "raised") =>
            /\ model.id # c
            /\ model.st \notin {"untrained", "fitting", "aborted"}

\* C25 (as claimed): the model object a train run passes to export is the
\* object it passed to fit, and the backend in place when the run returns is
\* built from the version this run wrote, also when a rollback ran meanwhile.
C25_AsClaimed ==
    \A c \in Callers :
        /\ pc[c] = "finish" => expObj[c] = fitObj[c]
        /\ (pc[c] = "finally" /\ tout[c].st = "success") =>
               BackendSrc = [d |-> Capitalize(mtype[c]), v |-> newVer[c]]

\* C26 (as claimed): get_available_models has exactly one entry with active
\* true: active_model_type is a key of SUPPORTED_MODELS, whatever model_type
\* strings train and rollback were called with.
C26_AsClaimed ==
    /\ Len(GetAvailableModels) = Cardinality(DOMAIN SUPPORTED_MODELS)
    /\ Cardinality({i \in 1..Len(GetAvailableModels) :
                       GetAvailableModels[i].active}) = 1
    /\ active_model_type \in DOMAIN SUPPORTED_MODELS

\* C27 (as claimed): in an answer of the model list, the entry of a type has
\* trained true exactly when the directory train writes for that type,
\* models/<model_type.capitalize()>, holds a checkpoint.
C27_AsClaimed ==
    \A i \in 1..Len(models) :
        models[i].trained <=> Ckpts(Capitalize(models[i].type)) # {}

\* C28: while an execution of ai_engine.train started by train_endpoint or
\* by scheduled_retraining is in progress, training_active is true and
\* training_status reports active = true.
C28_ActiveWhileTraining ==
    \A c \in Callers :
        InTrain(c) => training_active /\ TrainingStatus.active

\* the worker thread of a request is in the middle of a fit
C28_Witness ==
    \E r \in Reqs : pc[r] = "fit" /\ training_active

====
